---- MODULE Spec2Model ----
(***************************************************************************)
(* PhoneBot (src/bot.py): a Telegram bot that takes a phone number from a  *)
(* sender after /start, removes non-digits and a leading "62", forwards it *)
(* to the account TARGET_USER_ID and answers the sender.                   *)
(*                                                                         *)
(* Strings are sequences of characters; a character is a one-element name  *)
(* ("6", "a", " ") or the name of a code point ("SUP2", "BACKQUOTE").        *)
(* A handler is a coroutine: it runs atomically from one await to the      *)
(* next, so every action below is the code between two awaits, and the     *)
(* outcome of the awaited call (returned or raised) is the environment's.  *)
(* Spec is the bot as main() builds it, one handler at a time;             *)
(* SpecConcurrent lets two handlers interleave at their awaits;            *)
(* SpecNormalizer calls the pure functions on their own, on every string   *)
(* up to a length.                                                         *)
(***************************************************************************)
EXTENDS Integers, Sequences, FiniteSets, TLC

\* ------------------------------------------------------------------ bounds
\* Senders are the chat ids 1..NumSenders.
NumSenders == 2

\* The longest string the pure functions are called with, but for the examples
MaxLen == 4

Senders == 1..NumSenders

\* Slots for handler invocations. A slot holds a running handler, or the
\* record of the last handler that ran in it. The Application as main() builds
\* it awaits each handler before it takes the next update, so every handler
\* runs in slot 1; with concurrent_updates two handlers run at once.
TaskIds == {1, 2}

\* The chat id the environment variable TARGET_USER_ID carries when it is set.
TargetId == 900

\* Optional[int]: None is the empty sequence, an int n is <<n>>.
None == <<>>

\* ------------------------------------------------------------- characters
AsciiDigits == {"0", "1", "2", "3", "4", "5", "6", "7", "8", "9"}
\* Code points that are digits for Python although they are not 0-9:
\* SUP2 is U+00B2 (superscript two).
OtherDigits == {"SUP2"}
Whitespace == {" ", "\t", "\n"}

\* str.isdigit of one character
isdigit(c) == c \in AsciiDigits \cup OtherDigits

\* str.lower of one character (ASCII letters; every other character of the
\* model is unchanged by lower()).
lower_char(c) ==
    CASE c = "A" -> "a" [] c = "B" -> "b" [] c = "C" -> "c" [] c = "D" -> "d"
      [] c = "E" -> "e" [] c = "F" -> "f" [] c = "G" -> "g" [] c = "H" -> "h"
      [] c = "I" -> "i" [] c = "J" -> "j" [] c = "K" -> "k" [] c = "L" -> "l"
      [] c = "M" -> "m" [] c = "N" -> "n" [] c = "O" -> "o" [] c = "P" -> "p"
      [] c = "Q" -> "q" [] c = "R" -> "r" [] c = "S" -> "s" [] c = "T" -> "t"
      [] c = "U" -> "u" [] c = "V" -> "v" [] c = "W" -> "w" [] c = "X" -> "x"
      [] c = "Y" -> "y" [] c = "Z" -> "z" [] OTHER -> c

\* str.lower
lower(s) == [i \in 1..Len(s) |-> lower_char(s[i])]

\* sub in s
contains(s, sub) ==
    \E i \in 0..(Len(s) - Len(sub)) : SubSeq(s, i + 1, i + Len(sub)) = sub

\* The filter taking out the first character that is no digit, not every one
digits_of_drops_one(s) ==
    LET other == {i \in 1..Len(s) : ~isdigit(s[i])}
    IN  IF other = {} THEN s
        ELSE LET k == CHOOSE i \in other : \A j \in other : i <= j
             IN  SubSeq(s, 1, k - 1) \o SubSeq(s, k + 1, Len(s))

\* "".join(filter(str.isdigit, s))
digits_of(s) == SelectSeq(s, isdigit)

\* str.strip(): leading and trailing whitespace removed
strip(s) ==
    LET keep == {i \in 1..Len(s) : s[i] \notin Whitespace}
    IN  IF keep = {} THEN <<>>
        ELSE LET lo == CHOOSE i \in keep : \A j \in keep : i <= j
                 hi == CHOOSE i \in keep : \A j \in keep : j <= i
             IN  SubSeq(s, lo, hi)

\* str.startswith
startswith(s, p) == Len(s) >= Len(p) /\ SubSeq(s, 1, Len(p)) = p

\* PhoneBot.process_phone_number without the country code test
process_phone_number_keeps_62(phone_number) == digits_of(phone_number)

\* process_phone_number removing "62" as long as the number starts with it
RECURSIVE strip_every_62(_)
strip_every_62(clean_number) ==
    IF startswith(clean_number, <<"6", "2">>)
    THEN strip_every_62(SubSeq(clean_number, 3, Len(clean_number)))
    ELSE clean_number
process_phone_number_strips_every_62(phone_number) ==
    strip_every_62(digits_of(phone_number))

\* PhoneBot.process_phone_number
process_phone_number(phone_number) ==
    LET clean_number == digits_of(phone_number)
    IN  IF startswith(clean_number, <<"6", "2">>)
        THEN SubSeq(clean_number, 3, Len(clean_number))
        ELSE clean_number

\* The f-string that puts a value between two backquotes (a Markdown code span)
code_span(x) == <<"BACKQUOTE">> \o x \o <<"BACKQUOTE">>

\* ------------------------------------------------------------------ inputs
\* Message texts the senders type (update.message.text).
\* "62123456"
Text_62123456 ==
    <<"6", "2", "1", "2", "3", "4", "5", "6">>
\* " 62-81 ": surrounded by blanks, a dash inside
Text_padded ==
    <<" ", "6", "2", "-", "8", "1", " ">>
\* "not-a-number!!"
Text_no_digits ==
    <<"n", "o", "t", "-", "a", "-", "n", "u", "m", "b", "e", "r", "!", "!">>
\* "62": the country code alone
Text_62 ==
    <<"6", "2">>
\* "0858": no country code
Text_0858 ==
    <<"0", "8", "5", "8">>
\* A lone superscript two (U+00B2)
Text_sup2 ==
    <<"SUP2">>
Texts ==
    {Text_62123456, Text_padded, Text_no_digits, Text_62, Text_0858, Text_sup2}

\* str(e) of the exceptions the Bot API client raises from send_message.
\* "Chat not found"
Err_chat_not_found ==
    <<"C", "h", "a", "t", " ", "n", "o", "t", " ", "f", "o", "u", "n", "d">>
\* "Forbidden: bot was blocked by the user"
Err_blocked ==
    <<"F", "o", "r", "b", "i", "d", "d", "e", "n", ":", " ", "b", "o", "t",
      " ", "w", "a", "s", " ", "b", "l", "o", "c", "k", "e", "d", " ", "b",
      "y", " ", "t", "h", "e", " ", "u", "s", "e", "r">>
\* "Forbidden: user is deactivated"
Err_deactivated ==
    <<"F", "o", "r", "b", "i", "d", "d", "e", "n", ":", " ", "u", "s", "e",
      "r", " ", "i", "s", " ", "d", "e", "a", "c", "t", "i", "v", "a", "t",
      "e", "d">>
\* "Timed out"
Err_timed_out ==
    <<"T", "i", "m", "e", "d", " ", "o", "u", "t">>
\* "BLOCKED: chat not found"
Err_both ==
    <<"B", "L", "O", "C", "K", "E", "D", ":", " ", "c", "h", "a", "t", " ",
      "n", "o", "t", " ", "f", "o", "u", "n", "d">>
Descriptions ==
    {Err_chat_not_found, Err_blocked, Err_deactivated, Err_timed_out, Err_both}
\* str(e) of the exceptions update.message.reply_text raises inside a try block
\* (the same client call, addressed to the sender).
ReplyErrors ==
    {Err_timed_out}

\* The substrings handle_message looks for in str(e).lower()
chat_not_found ==
    <<"c", "h", "a", "t", " ", "n", "o", "t", " ", "f", "o", "u", "n", "d">>
blocked ==
    <<"b", "l", "o", "c", "k", "e", "d">>
forbidden ==
    <<"f", "o", "r", "b", "i", "d", "d", "e", "n">>

\* ------------------------------------------------------------------- state
VARIABLES
    TARGET_USER_ID,       \* module constant read from the environment: None or <<id>>
    concurrent_updates,   \* whether the Application runs handlers concurrently
    waiting_for_number,   \* PhoneBot.waiting_for_number: dict user_id -> True
    tasks,                \* handler invocations: where each is, what it has done
    unit                  \* a direct call of one of the pure functions: what it returned

vars == <<TARGET_USER_ID, concurrent_updates, waiting_for_number, tasks, unit>>

\* The handlers' state
bot == <<TARGET_USER_ID, concurrent_updates, waiting_for_number, tasks>>

\* What is fixed when the process starts
config == <<TARGET_USER_ID, concurrent_updates>>

\* dict.get(key, default)
dict_get(d, key, default) == IF key \in DOMAIN d THEN d[key] ELSE default

\* d[key] = value
dict_set(d, key, value) == (key :> value) @@ d

\* str(n) for an int n >= 0
RECURSIVE str_of_int(_)
str_of_int(n) ==
    LET digit == <<"0", "1", "2", "3", "4", "5", "6", "7", "8", "9">>
    IN  IF n < 10 THEN <<digit[n + 1]>>
        ELSE str_of_int(n \div 10) \o <<digit[(n % 10) + 1]>>

\* ------------------------------------------------------------------ replies
\* A message text is its template (the literal of the source) and the values
\* the f-string puts into it, in order.
Msg(tmpl, args) == [tmpl |-> tmpl, args |-> args]

Msg_start == Msg("bot_pengirim_nomor_telepon", <<>>)
Msg_use_start == Msg("gunakan_start", <<>>)
Msg_invalid == Msg("input_tidak_valid", <<>>)
Msg_no_target == Msg("target_belum_dikonfigurasi", <<>>)
Msg_success(text, processed_number) ==
    Msg("berhasil_terkirim", <<code_span(text), code_span(processed_number)>>)
Msg_chat_not_found == Msg("target_chat_tidak_ditemukan", <<>>)
Msg_blocked == Msg("bot_diblokir", <<>>)
Msg_forbidden == Msg("tidak_ada_izin", <<>>)
Msg_generic(e) == Msg("gagal_mengirim", <<code_span(e)>>)
Msg_help == Msg("cara_penggunaan", <<>>)
Msg_my_id(user_id, target_info) ==
    Msg("info_akun", <<code_span(str_of_int(user_id)), target_info>>)
Msg_test_no_target == Msg("test_target_belum_dikonfigurasi", <<>>)
Msg_test_ok == Msg("test_berhasil", <<>>)
Msg_test_failed(error_msg) == Msg("test_gagal", <<code_span(error_msg)>>)

\* error_text looking for the substrings in str(e) itself, not in its lower case
error_text_case_sensitive(e) ==
    IF contains(e, chat_not_found) THEN Msg_chat_not_found
    ELSE IF contains(e, blocked) THEN Msg_blocked
    ELSE IF contains(e, forbidden) THEN Msg_forbidden
    ELSE Msg_generic(e)

\* The except block of handle_message: the reply chosen for str(e) = e
error_text(e) ==
    LET error_msg == lower(e)
    IN  IF contains(error_msg, chat_not_found) THEN Msg_chat_not_found
        ELSE IF contains(error_msg, blocked) THEN Msg_blocked
        ELSE IF contains(error_msg, forbidden) THEN Msg_forbidden
        ELSE Msg_generic(e)

\* test_connection answering a failure the way handle_message does
test_error_text_classified(e) == error_text(e)

\* The except block of test_connection: one template, str(e) put into it
test_error_text(e) == Msg_test_failed(e)

\* -------------------------------------------------------------------- tasks
\* kind     the handler ("none" for a slot never used)
\* user     update.effective_user.id
\* text     update.message.text (empty for a command)
\* pc       "send": awaiting context.bot.send_message; "confirm": awaiting the
\*          reply_text inside the try block; "reply": awaiting a reply_text
\*          outside a try block; "done": returned; "raised": left by an exception
\* seen     what handle_message read from waiting_for_number
\* calls    the send_message calls made, each [chat_id, text]; chat_id is
\*          TARGET_USER_ID as it is (<<id>>)
\* sent     outcome of that call: "none", "pending", "ok", "failed"
\* exc      the exception the except block caught: <<>> or <<str(e)>>
\* replies  the reply_text calls made, each [msg, status], status "pending",
\*          "delivered" (the call returned) or "failed" (the call raised)
NoTask ==
    [kind |-> "none", user |-> 0, text |-> <<>>, pc |-> "done", seen |-> FALSE,
     calls |-> <<>>, sent |-> "none", exc |-> <<>>, replies |-> <<>>]

\* A fresh invocation of handler kind for an update of user
Invoke(kind, user, text) == [NoTask EXCEPT !.kind = kind, !.user = user, !.text = text]

\* await update.message.reply_text(msg) outside a try block
reply_text(task, msg) ==
    [task EXCEPT !.replies = Append(@, [msg |-> msg, status |-> "pending"]),
                 !.pc = "reply"]

\* await update.message.reply_text(msg) inside a try block
reply_text_in_try(task, msg) ==
    [task EXCEPT !.replies = Append(@, [msg |-> msg, status |-> "pending"]),
                 !.pc = "confirm"]

\* await context.bot.send_message(chat_id, text)
send_message(task, chat_id, text) ==
    [task EXCEPT !.calls = Append(@, [chat_id |-> chat_id, text |-> text]),
                 !.sent = "pending", !.pc = "send"]

\* The pending reply_text call ends with status
settle_reply(task, status) ==
    [task EXCEPT !.replies[Len(task.replies)].status = status]

\* A direct call of a pure function: fn the function ("none" before the call),
\* arg the string it is first given, ret the values returned so far
NoCall == [fn |-> "none", arg |-> <<>>, ret |-> <<>>]

\* The slot holds no running handler
Idle(t) == tasks[t].pc \in {"done", "raised"}

\* The Application may invoke the handler of the next update in slot t: the
\* first idle slot; unless concurrent_updates is set, the Application awaits
\* each handler before it takes the next update
Free(t) ==
    /\ Idle(t)
    /\ \A s \in TaskIds : s < t => ~Idle(s)
    /\ concurrent_updates \/ \A s \in TaskIds : Idle(s)

\* The state main() builds, but for concurrent_updates
Start ==
    /\ TARGET_USER_ID \in {None, <<TargetId>>}
    /\ waiting_for_number = <<>>
    /\ tasks = [t \in TaskIds |-> NoTask]
    /\ unit = NoCall

\* main() builds the Application without concurrent_updates: one handler at a time
Init == Start /\ concurrent_updates = FALSE

\* The Application built with concurrent_updates: handlers interleave at their awaits
InitConcurrent == Start /\ concurrent_updates = TRUE

\* ----------------------------------------------------------------- handlers
\* start with one flag for the whole bot in place of one per user
start_sets_everyone(t, user_id) ==
    /\ Free(t)
    /\ waiting_for_number' = [u \in Senders |-> TRUE]
    /\ tasks' = [tasks EXCEPT ![t] = reply_text(Invoke("start", user_id, <<>>), Msg_start)]
    /\ UNCHANGED <<config, unit>>

\* start awaiting its reply before it opens the session
start_replies_first(t, user_id) ==
    /\ Free(t)
    /\ tasks' = [tasks EXCEPT ![t] = reply_text(Invoke("start", user_id, <<>>), Msg_start)]
    /\ UNCHANGED <<config, waiting_for_number, unit>>

\* PhoneBot.start, up to its await
start(t, user_id) ==
    /\ Free(t)
    /\ waiting_for_number' = dict_set(waiting_for_number, user_id, TRUE)
    /\ tasks' = [tasks EXCEPT ![t] = reply_text(Invoke("start", user_id, <<>>), Msg_start)]
    /\ UNCHANGED <<config, unit>>

\* PhoneBot.help_command, up to its await
help_command(t, user_id) ==
    /\ Free(t)
    /\ tasks' = [tasks EXCEPT ![t] = reply_text(Invoke("help", user_id, <<>>), Msg_help)]
    /\ UNCHANGED <<config, waiting_for_number, unit>>

\* PhoneBot.get_my_id, up to its await (username and first_name, which the
\* reply repeats from the update, are left out)
get_my_id(t, user_id) ==
    LET target_info == IF TARGET_USER_ID # None
                       THEN code_span(str_of_int(TARGET_USER_ID[1]))
                       ELSE <<"belum diset">>
    IN  /\ Free(t)
        /\ tasks' = [tasks EXCEPT ![t] =
               reply_text(Invoke("myid", user_id, <<>>), Msg_my_id(user_id, target_info))]
        /\ UNCHANGED <<config, waiting_for_number, unit>>

\* test_connection asking for a session first, as handle_message does
test_connection_needs_session(t, user_id) ==
    LET task == Invoke("test", user_id, <<>>)
    IN  /\ Free(t)
        /\ tasks' = [tasks EXCEPT ![t] =
               IF ~dict_get(waiting_for_number, user_id, FALSE)
               THEN reply_text(task, Msg_use_start)
               ELSE IF TARGET_USER_ID = None
               THEN reply_text(task, Msg_test_no_target)
               ELSE send_message(task, TARGET_USER_ID, <<"test koneksi dari bot">>)]
        /\ UNCHANGED <<config, waiting_for_number, unit>>

\* PhoneBot.test_connection, up to its first await
test_connection(t, user_id) ==
    LET task == Invoke("test", user_id, <<>>)
    IN  /\ Free(t)
        /\ tasks' = [tasks EXCEPT ![t] =
               IF TARGET_USER_ID = None
               THEN reply_text(task, Msg_test_no_target)
               ELSE send_message(task, TARGET_USER_ID, <<"test koneksi dari bot">>)]
        /\ UNCHANGED <<config, waiting_for_number, unit>>

\* test_connection: send_message returned, the success reply is awaited
test_connection_sent(t) ==
    /\ tasks[t].kind = "test" /\ tasks[t].pc = "send"
    /\ tasks' = [tasks EXCEPT ![t] =
           reply_text_in_try([tasks[t] EXCEPT !.sent = "ok"], Msg_test_ok)]
    /\ UNCHANGED <<config, waiting_for_number, unit>>

\* test_connection: an await inside the try block raised e (send_message when
\* pc is "send", the success reply when pc is "confirm")
test_connection_except(t, e) ==
    /\ tasks[t].kind = "test" /\ tasks[t].pc \in {"send", "confirm"}
    /\ tasks[t].pc = "confirm" => e \in ReplyErrors
    /\ LET task == IF tasks[t].pc = "send"
                   THEN [tasks[t] EXCEPT !.sent = "failed"]
                   ELSE settle_reply(tasks[t], "failed")
       IN  tasks' = [tasks EXCEPT ![t] =
               reply_text([task EXCEPT !.exc = <<e>>], test_error_text(e))]
    /\ UNCHANGED <<config, waiting_for_number, unit>>

\* handle_message's read of the session with the default the wrong way round
is_waiting_default_true(user_id) == dict_get(waiting_for_number, user_id, TRUE)

\* self.waiting_for_number.get(user_id, False)
is_waiting(user_id) == dict_get(waiting_for_number, user_id, FALSE)

\* handle_message's checks without the test for digits
handle_message_branch_no_validation(waiting, digits_only) ==
    IF ~waiting THEN "use_start"
    ELSE IF TARGET_USER_ID = None THEN "no_target"
    ELSE "send"

\* handle_message's checks without the test for TARGET_USER_ID
handle_message_branch_no_target_check(waiting, digits_only) ==
    IF ~waiting THEN "use_start"
    ELSE IF digits_only = <<>> THEN "invalid"
    ELSE "send"

\* handle_message's checks with the test for TARGET_USER_ID before the test
\* for digits
handle_message_branch_target_first(waiting, digits_only) ==
    IF ~waiting THEN "use_start"
    ELSE IF TARGET_USER_ID = None THEN "no_target"
    ELSE IF digits_only = <<>> THEN "invalid"
    ELSE "send"

\* handle_message's checks, in the order of the source: the session, the
\* digits, the recipient
handle_message_branch(waiting, digits_only) ==
    IF ~waiting THEN "use_start"
    ELSE IF digits_only = <<>> THEN "invalid"
    ELSE IF TARGET_USER_ID = None THEN "no_target"
    ELSE "send"

\* PhoneBot.handle_message, up to its first await
handle_message(t, user_id, message_text) ==
    LET task == [Invoke("message", user_id, message_text) EXCEPT
                     !.seen = is_waiting(user_id)]
        text == strip(message_text)
        digits_only == digits_of(text)
        processed_number == process_phone_number(text)
        branch == handle_message_branch(task.seen, digits_only)
    IN  /\ Free(t)
        /\ tasks' = [tasks EXCEPT ![t] =
               CASE branch = "use_start" -> reply_text(task, Msg_use_start)
                 [] branch = "invalid" -> reply_text(task, Msg_invalid)
                 [] branch = "no_target" -> reply_text(task, Msg_no_target)
                 [] OTHER -> send_message(task, TARGET_USER_ID,
                                          code_span(processed_number))]
        /\ UNCHANGED <<config, waiting_for_number, unit>>

\* handle_message_sent closing the session once a number has been forwarded
handle_message_sent_one_shot(t) ==
    LET text == strip(tasks[t].text)
        processed_number == process_phone_number(text)
    IN  /\ tasks[t].kind = "message" /\ tasks[t].pc = "send"
        /\ tasks' = [tasks EXCEPT ![t] =
               reply_text_in_try([tasks[t] EXCEPT !.sent = "ok"],
                                 Msg_success(text, processed_number))]
        /\ waiting_for_number' = dict_set(waiting_for_number, tasks[t].user, FALSE)
        /\ UNCHANGED <<config, unit>>

\* handle_message: send_message returned, the confirmation is awaited
handle_message_sent(t) ==
    LET text == strip(tasks[t].text)
        processed_number == process_phone_number(text)
    IN  /\ tasks[t].kind = "message" /\ tasks[t].pc = "send"
        /\ tasks' = [tasks EXCEPT ![t] =
               reply_text_in_try([tasks[t] EXCEPT !.sent = "ok"],
                                 Msg_success(text, processed_number))]
        /\ UNCHANGED <<config, waiting_for_number, unit>>

\* handle_message_except closing the session when the delivery failed
handle_message_except_closes_session(t, e) ==
    /\ tasks[t].kind = "message" /\ tasks[t].pc \in {"send", "confirm"}
    /\ tasks[t].pc = "confirm" => e \in ReplyErrors
    /\ LET task == IF tasks[t].pc = "send"
                   THEN [tasks[t] EXCEPT !.sent = "failed"]
                   ELSE settle_reply(tasks[t], "failed")
       IN  tasks' = [tasks EXCEPT ![t] =
               reply_text([task EXCEPT !.exc = <<e>>], error_text(e))]
    /\ waiting_for_number' = dict_set(waiting_for_number, tasks[t].user, FALSE)
    /\ UNCHANGED <<config, unit>>

\* handle_message: an await inside the try block raised e (send_message when
\* pc is "send", the confirmation when pc is "confirm")
handle_message_except(t, e) ==
    /\ tasks[t].kind = "message" /\ tasks[t].pc \in {"send", "confirm"}
    /\ tasks[t].pc = "confirm" => e \in ReplyErrors
    /\ LET task == IF tasks[t].pc = "send"
                   THEN [tasks[t] EXCEPT !.sent = "failed"]
                   ELSE settle_reply(tasks[t], "failed")
       IN  tasks' = [tasks EXCEPT ![t] =
               reply_text([task EXCEPT !.exc = <<e>>], error_text(e))]
    /\ UNCHANGED <<config, waiting_for_number, unit>>

\* Any handler: the awaited reply_text returned; the handler has no statement
\* left and returns
reply_returned(t) ==
    /\ tasks[t].pc \in {"reply", "confirm"}
    /\ tasks' = [tasks EXCEPT ![t] = [settle_reply(tasks[t], "delivered") EXCEPT !.pc = "done"]]
    /\ UNCHANGED <<config, waiting_for_number, unit>>

\* Any handler: a reply_text outside a try block raised; the exception leaves
\* the handler
reply_raised(t) ==
    /\ tasks[t].pc = "reply"
    /\ tasks' = [tasks EXCEPT ![t] = [settle_reply(tasks[t], "failed") EXCEPT !.pc = "raised"]]
    /\ UNCHANGED <<config, waiting_for_number, unit>>

\* One step of the bot, the updates' texts and the exceptions' descriptions
\* drawn from the given sets
Step(texts, descriptions) ==
    \/ \E t \in TaskIds, u \in Senders : start(t, u)
    \/ \E t \in TaskIds, u \in Senders : help_command(t, u)
    \/ \E t \in TaskIds, u \in Senders : get_my_id(t, u)
    \/ \E t \in TaskIds, u \in Senders : test_connection(t, u)
    \/ \E t \in TaskIds : test_connection_sent(t)
    \/ \E t \in TaskIds, e \in descriptions : test_connection_except(t, e)
    \/ \E t \in TaskIds, u \in Senders, m \in texts : handle_message(t, u, m)
    \/ \E t \in TaskIds : handle_message_sent(t)
    \/ \E t \in TaskIds, e \in descriptions : handle_message_except(t, e)
    \/ \E t \in TaskIds : reply_returned(t)
    \/ \E t \in TaskIds : reply_raised(t)

Next == Step(Texts, Descriptions)

\* The bot as main() runs it: the handlers one after the other
Spec == Init /\ [][Next]_vars

\* Inputs of the interleaved runs: a number, a text without digits; a
\* description the except block classifies, one it does not
ConcurrentTexts ==
    {Text_padded, Text_no_digits}
ConcurrentDescriptions ==
    {Err_blocked, Err_timed_out}

NextConcurrent == Step(ConcurrentTexts, ConcurrentDescriptions)

\* The bot with concurrent_updates: two handlers interleaved at their awaits
SpecConcurrent == InitConcurrent /\ [][NextConcurrent]_vars

\* ------------------------------------------------------- the pure functions
\* Characters of the strings the pure functions are called with: the country
\* code's digits, another digit, a letter, a digit that is not 0-9
Alphabet == {"6", "2", "0", "a", "SUP2"}

\* "62858578089187"
Text_62858578089187 ==
    <<"6", "2", "8", "5", "8", "5", "7", "8", "0", "8", "9", "1", "8", "7">>
\* "0858578089187"
Text_0858578089187 ==
    <<"0", "8", "5", "8", "5", "7", "8", "0", "8", "9", "1", "8", "7">>
\* "abc"
Text_abc ==
    <<"a", "b", "c">>
\* "626262858"
Text_626262858 ==
    <<"6", "2", "6", "2", "6", "2", "8", "5", "8">>

\* The arguments of the direct calls: every string over Alphabet of length
\* up to MaxLen, the texts of the handlers, and the examples
PhoneNumbers ==
    UNION {[1..n -> Alphabet] : n \in 0..MaxLen}
        \cup Texts
        \cup {Text_62858578089187, Text_0858578089187, Text_abc, Text_626262858}

\* A direct call is to be made with some string; no handler runs
InitNormalizer ==
    /\ TARGET_USER_ID = None
    /\ concurrent_updates = FALSE
    /\ waiting_for_number = <<>>
    /\ tasks = [t \in TaskIds |-> NoTask]
    /\ unit \in {[NoCall EXCEPT !.arg = s] : s \in PhoneNumbers}

\* phone_bot.process_phone_number(arg)
call_process_phone_number ==
    /\ unit.fn = "none"
    /\ unit' = [unit EXCEPT !.fn = "process_phone_number",
                            !.ret = <<process_phone_number(unit.arg)>>]
    /\ UNCHANGED bot

\* "".join(filter(str.isdigit, x)), with x the argument and then the value
\* the expression returned
call_digits_of ==
    /\ unit.fn \in {"none", "digits_of"}
    /\ Len(unit.ret) < 2
    /\ unit' = [unit EXCEPT !.fn = "digits_of",
                            !.ret = Append(@, digits_of(IF unit.ret = <<>>
                                                        THEN unit.arg
                                                        ELSE unit.ret[Len(unit.ret)]))]
    /\ UNCHANGED bot

NextNormalizer == call_process_phone_number \/ call_digits_of

\* The pure functions of the bot, called on their own
SpecNormalizer == InitNormalizer /\ [][NextNormalizer]_vars

\* ================================================================== claims
\* Vocabulary of the claims
AWAITING_NUMBER(u) == u \in DOMAIN waiting_for_number /\ waiting_for_number[u]
AWAITING_NUMBER_next(u) == u \in DOMAIN waiting_for_number' /\ waiting_for_number'[u]
HasDigit(text) == \E i \in 1..Len(text) : isdigit(text[i])
Finished(t) == tasks[t].kind # "none" /\ tasks[t].pc \in {"done", "raised"}
\* Slot t takes a step / starts a handler of this kind in this step
Stepped(t) == tasks'[t].pc # tasks[t].pc
Entered(t, kind) == Stepped(t) /\ Idle(t) /\ tasks'[t].kind = kind
\* The reply says a value: one of the values put into its template holds it
Says(msg, value) == \E i \in 1..Len(msg.args) : contains(msg.args[i], value)
\* A message from a sender in AWAITING_NUMBER, with a digit, recipient configured
Forwarding(t) ==
    /\ tasks[t].kind = "message" /\ tasks[t].seen
    /\ HasDigit(tasks[t].text) /\ TARGET_USER_ID # None

\* The one gateway call of C1: to the recipient, carrying the normalized text
C1_OneCall(t) ==
    /\ Len(tasks[t].calls) = 1
    /\ tasks[t].calls[1].chat_id = <<TargetId>>
    /\ tasks[t].calls[1].text = code_span(process_phone_number(tasks[t].text))
    /\ tasks[t].text = Text_62123456 =>
           tasks[t].calls[1].text = code_span(<<"1", "2", "3", "4", "5", "6">>)
    /\ tasks[t].text = Text_padded => tasks[t].calls[1].text = code_span(<<"8", "1">>)

\* C1 as claimed: for a sender in AWAITING_NUMBER, a recipient configured and
\* a text with a digit, onMessage makes exactly one gateway call, to the
\* recipient and carrying processPhoneNumber(text), and when that call
\* succeeds the handler's reply is the confirmation, which contains the input
\* text and the normalized value.
C1_Original ==
    \A t \in TaskIds : Forwarding(t) =>
        /\ C1_OneCall(t)
        /\ tasks[t].sent = "ok" =>
               /\ tasks[t].replies[1].msg.tmpl = "berhasil_terkirim"
               /\ Says(tasks[t].replies[1].msg, tasks[t].text)
               /\ Says(tasks[t].replies[1].msg, process_phone_number(tasks[t].text))

\* C1 (amended): for a sender in AWAITING_NUMBER, a recipient configured and a
\* text with a digit, onMessage makes exactly one gateway call, to the
\* recipient and carrying processPhoneNumber(text), and when that call
\* succeeds the handler's reply is the confirmation, which holds exactly the
\* input text with its leading and trailing whitespace removed and the
\* normalized value ("62123456" gives one call with "123456").
C1_Confirmation ==
    \A t \in TaskIds : Forwarding(t) =>
        /\ C1_OneCall(t)
        /\ tasks[t].sent = "ok" =>
               tasks[t].replies[1].msg =
                   Msg("berhasil_terkirim",
                       <<code_span(strip(tasks[t].text)),
                         code_span(process_phone_number(tasks[t].text))>>)

\* A padded number was forwarded and its confirmation delivered
C1_Witness ==
    \E t \in TaskIds :
        /\ Forwarding(t) /\ tasks[t].text = Text_padded
        /\ tasks[t].sent = "ok" /\ tasks[t].pc = "done"
        /\ tasks[t].replies[1].status = "delivered"

\* C2: a message from a sender whose session key is absent is answered with
\* the "use /start" text whatever the text and the recipient configuration,
\* makes no gateway call in the whole handler, and leaves the key absent.
C2_StartFirst ==
    /\ [](\A t \in TaskIds :
            (tasks[t].kind = "message" /\ ~tasks[t].seen) =>
                /\ tasks[t].calls = <<>>
                /\ Len(tasks[t].replies) = 1
                /\ tasks[t].replies[1].msg = Msg_use_start)
    /\ [][\A t \in TaskIds :
            (Entered(t, "message") /\ tasks'[t].user \notin DOMAIN waiting_for_number) =>
                /\ ~tasks'[t].seen
                /\ tasks'[t].user \notin DOMAIN waiting_for_number']_vars

\* A sender without a session sent a number, with a recipient configured and
\* another sender in AWAITING_NUMBER, and got the "use /start" reply
C2_Witness ==
    \E t \in TaskIds :
        /\ TARGET_USER_ID # None
        /\ tasks[t].kind = "message" /\ tasks[t].text = Text_62123456
        /\ tasks[t].pc = "done" /\ tasks[t].replies[1].status = "delivered"
        /\ tasks[t].user \notin DOMAIN waiting_for_number
        /\ DOMAIN waiting_for_number # {}

\* C3: once start has run for a sender, the sender's session is
\* AWAITING_NUMBER in every later state: no step of any handler, whatever its
\* outcome, takes a session out of AWAITING_NUMBER or deletes its entry, and
\* /start for a sender already in AWAITING_NUMBER leaves it so.
C3_NeverBackToIdle ==
    /\ [](\A t \in TaskIds : tasks[t].kind = "start" => AWAITING_NUMBER(tasks[t].user))
    /\ [][\A u \in Senders : AWAITING_NUMBER(u) => AWAITING_NUMBER_next(u)]_vars

\* A sender's delivery failed, the reply that says so failed too, and the
\* sender is in AWAITING_NUMBER
C3_Witness ==
    \E t \in TaskIds :
        /\ tasks[t].kind = "message" /\ tasks[t].sent = "failed"
        /\ tasks[t].pc = "raised"
        /\ AWAITING_NUMBER(tasks[t].user)

C5_NoRecipient ==
    /\ [](TARGET_USER_ID = None =>
            \A t \in TaskIds :
                /\ tasks[t].calls = <<>>
                /\ (tasks[t].kind = "message" /\ tasks[t].seen /\ HasDigit(tasks[t].text)) =>
                       /\ Len(tasks[t].replies) = 1
                       /\ tasks[t].replies[1].msg = Msg_no_target)
    /\ [][\A t \in TaskIds :
            (Entered(t, "message") /\ TARGET_USER_ID = None) =>
                waiting_for_number' = waiting_for_number]_vars

\* A number was submitted after /start with no recipient configured
C5_Witness ==
    \E t \in TaskIds :
        /\ TARGET_USER_ID = None
        /\ tasks[t].kind = "message" /\ tasks[t].seen
        /\ tasks[t].text = Text_62123456
        /\ tasks[t].pc = "done"

\* word occurs in d when case is ignored
MatchesIgnoringCase(d, word) ==
    \E i \in 0..(Len(d) - Len(word)) :
        \A j \in 1..Len(word) : lower_char(d[i + j]) = word[j]

\* The template C6 names for a failure description
C6_Template(d) ==
    IF MatchesIgnoringCase(d, chat_not_found) THEN "target_chat_tidak_ditemukan"
    ELSE IF MatchesIgnoringCase(d, blocked) THEN "bot_diblokir"
    ELSE IF MatchesIgnoringCase(d, forbidden) THEN "tidak_ada_izin"
    ELSE "gagal_mengirim"

\* C6: when the gateway call of onMessage fails with description d, exactly
\* one reply is chosen, by case-insensitive substring match in the order
\* "chat not found", "blocked", "forbidden"; any other d gives the generic
\* template with d in it verbatim, in its original case.
C6_Classified ==
    \A t \in TaskIds : (tasks[t].kind = "message" /\ tasks[t].sent = "failed") =>
        /\ Len(tasks[t].exc) = 1 /\ tasks[t].exc[1] \in Descriptions
        /\ Len(tasks[t].replies) = 1
        /\ LET d == tasks[t].exc[1]
               msg == tasks[t].replies[1].msg
           IN  /\ msg.tmpl = C6_Template(d)
               /\ msg.args = IF msg.tmpl = "gagal_mengirim" THEN <<code_span(d)>> ELSE <<>>
               /\ d = Err_chat_not_found => msg.tmpl = "target_chat_tidak_ditemukan"
               /\ d = Err_both => msg.tmpl = "target_chat_tidak_ditemukan"
               /\ d = Err_blocked => msg.tmpl = "bot_diblokir"
               /\ d = Err_deactivated => msg.tmpl = "tidak_ada_izin"
               /\ d = Err_timed_out => msg.tmpl = "gagal_mengirim"

\* A delivery failed with a description that holds two of the substrings, in
\* upper case in part, and the sender was answered
C6_Witness ==
    \E t \in TaskIds :
        /\ tasks[t].kind = "message" /\ tasks[t].sent = "failed"
        /\ tasks[t].exc = <<Err_both>>
        /\ tasks[t].pc = "done"

\* C7: a failed gateway call leaves the session store as it was and is not
\* retried: a message handler makes at most one gateway call, the sender is
\* still in AWAITING_NUMBER after the failure, and when the sender's next
\* event is a number it is forwarded (one new call) with no /start in between.
C7_NoRetryNoReset ==
    /\ [](\A t \in TaskIds : tasks[t].kind = "message" =>
            /\ Len(tasks[t].calls) <= 1
            /\ tasks[t].sent = "failed" =>
                   Len(tasks[t].calls) = 1 /\ AWAITING_NUMBER(tasks[t].user))
    /\ [][\A t \in TaskIds :
            (/\ tasks[t].kind = "message" /\ tasks[t].sent = "pending"
             /\ tasks'[t].sent = "failed") =>
                /\ waiting_for_number' = waiting_for_number
                /\ tasks'[t].calls = tasks[t].calls]_vars
    /\ [][\A t \in TaskIds :
            (/\ Entered(t, "message")
             /\ HasDigit(tasks'[t].text) /\ TARGET_USER_ID # None
             /\ tasks[t].kind = "message" /\ tasks[t].sent = "failed"
             /\ tasks[t].user = tasks'[t].user) =>
                tasks'[t].pc = "send" /\ Len(tasks'[t].calls) = 1]_vars

\* A delivery has failed and its handler has ended, with one call made and
\* the sender in AWAITING_NUMBER
C7_Witness ==
    \E t \in TaskIds :
        /\ tasks[t].kind = "message" /\ tasks[t].sent = "failed"
        /\ tasks[t].exc = <<Err_blocked>>
        /\ Finished(t) /\ Len(tasks[t].calls) = 1
        /\ AWAITING_NUMBER(tasks[t].user)

\* The session entry of sender b is the same before and after the step
SameEntry(b) ==
    /\ (b \in DOMAIN waiting_for_number') = (b \in DOMAIN waiting_for_number)
    /\ b \in DOMAIN waiting_for_number => waiting_for_number'[b] = waiting_for_number[b]

\* C8: sessions of different senders are isolated under every interleaving:
\* a step of a handler of sender A leaves the entry of every other sender as
\* it was, a message handler reads the state of its own sender only, and two
\* message handlers given the same session state, text and outcomes make the
\* same gateway calls and replies, whoever their senders are.
C8_Isolated ==
    /\ [][\A b \in Senders :
            SameEntry(b) \/ \E t \in TaskIds : Stepped(t) /\ tasks'[t].user = b]_vars
    /\ [][\A t \in TaskIds :
            Entered(t, "message") => tasks'[t].seen = AWAITING_NUMBER(tasks'[t].user)]_vars
    /\ [](\A t1, t2 \in TaskIds :
            (/\ tasks[t1].kind = "message" /\ tasks[t2].kind = "message"
             /\ tasks[t1].text = tasks[t2].text /\ tasks[t1].seen = tasks[t2].seen
             /\ tasks[t1].sent = tasks[t2].sent /\ tasks[t1].exc = tasks[t2].exc) =>
                /\ tasks[t1].calls = tasks[t2].calls
                /\ Len(tasks[t1].replies) = Len(tasks[t2].replies)
                /\ \A i \in 1..Len(tasks[t1].replies) :
                       tasks[t1].replies[i].msg = tasks[t2].replies[i].msg)

\* One sender's delivery failed while another sender, who never issued
\* /start, was told to start first
C8_Witness ==
    /\ tasks[1].kind = "message" /\ tasks[1].sent = "failed" /\ tasks[1].pc = "reply"
    /\ tasks[2].kind = "message" /\ ~tasks[2].seen /\ tasks[2].pc = "reply"
    /\ tasks[1].user # tasks[2].user
    /\ tasks[2].user \notin DOMAIN waiting_for_number

\* C9 as claimed: every handler invocation makes exactly one reply to its
\* sender on every path, also when the gateway call or a reply fails: a
\* handler never makes a second reply_text call, and has made one when it ends.
C9_ExactlyOneReply ==
    \A t \in TaskIds :
        /\ Len(tasks[t].replies) <= 1
        /\ Finished(t) => Len(tasks[t].replies) = 1

RECURSIVE extractDigits(_)
extractDigits(text) ==
    IF text = <<>> THEN <<>>
    ELSE (IF isdigit(Head(text)) THEN <<Head(text)>> ELSE <<>>)
             \o extractDigits(Tail(text))

\* digits without its first two characters when these are "62"
stripCountryPrefix(digits) ==
    IF Len(digits) >= 2 /\ digits[1] = "6" /\ digits[2] = "2"
    THEN [i \in 1..(Len(digits) - 2) |-> digits[i + 2]]
    ELSE digits

C12_OnlyDecimalDigits ==
    (unit.fn = "digits_of" /\ Len(unit.ret) >= 1) =>
        /\ \A i \in 1..Len(unit.ret[1]) : unit.ret[1][i] \in AsciiDigits
        /\ unit.ret[1] = SelectSeq(unit.arg, LAMBDA c : c \in AsciiDigits)
        /\ (unit.ret[1] = <<>>) = (\A i \in 1..Len(unit.arg) : unit.arg[i] \notin AsciiDigits)

\* C13: the digit filter is idempotent: applied to its own result it returns
\* that result again, for every string.
C13_Idempotent ==
    (unit.fn = "digits_of" /\ Len(unit.ret) = 2) => unit.ret[2] = unit.ret[1]

\* The filter was applied to "a6" followed by a superscript two and "a", and
\* then to what it returned
C13_Witness ==
    /\ unit.fn = "digits_of"
    /\ unit.arg = <<"a", "6", "SUP2", "a">>
    /\ Len(unit.ret) = 2
    /\ unit.ret[1] = <<"6", "SUP2">>

\* C14 as claimed: an error the gateway raises in a message handler, also one
\* with a description that matches none of the known ones, is caught in the
\* handler and answered with the classified text (the generic one when
\* unclassified), and the handling of the event never ends in an uncaught
\* error.
C14_NeverPropagated ==
    \A t \in TaskIds : (tasks[t].kind = "message" /\ tasks[t].sent = "failed") =>
        /\ Len(tasks[t].exc) = 1
        /\ tasks[t].replies[1].msg.tmpl = C6_Template(tasks[t].exc[1])
        /\ tasks[t].pc # "raised"

\* Some handler can be invoked for an update of sender b in this state
Handled(b) ==
    \E t \in TaskIds :
        ENABLED (\/ start(t, b)
                 \/ help_command(t, b)
                 \/ handle_message(t, b, Text_0858))

\* C15 as claimed: events of different senders do not block one another:
\* while the gateway call of a message of sender A is pending, an event of
\* another sender B is handled.
C15_NotBlocked ==
    \A t \in TaskIds, b \in Senders :
        (/\ tasks[t].kind = "message" /\ tasks[t].pc = "send"
         /\ tasks[t].user # b) => Handled(b)

C17_NoStaleRead ==
    /\ [][\A t \in TaskIds :
            Entered(t, "start") => AWAITING_NUMBER_next(tasks'[t].user)]_vars
    /\ [][\A t \in TaskIds :
            (/\ Entered(t, "message")
             /\ \E s \in TaskIds :
                    tasks[s].kind = "start" /\ tasks[s].user = tasks'[t].user) =>
                /\ tasks'[t].seen
                /\ \A i \in 1..Len(tasks'[t].replies) :
                       tasks'[t].replies[i].msg # Msg_use_start]_vars
    /\ [](\A t \in TaskIds :
            (tasks[t].kind = "message" /\ tasks[t].seen) =>
                \A i \in 1..Len(tasks[t].replies) :
                    tasks[t].replies[i].msg # Msg_use_start)

\* The reply of a start handler of a sender is still pending while a message
\* handler of the same sender has read AWAITING_NUMBER and is calling the
\* gateway
C17_Witness ==
    /\ tasks[1].kind = "start" /\ tasks[1].pc = "reply"
    /\ tasks[2].kind = "message" /\ tasks[2].user = tasks[1].user
    /\ tasks[2].seen /\ tasks[2].pc = "send"

\* C18: help_command, get_my_id and test_connection leave the session store
\* as it is and do the same for a sender in IDLE and a sender in
\* AWAITING_NUMBER; test_connection makes no gateway call when no recipient is
\* configured and exactly one (never a second) when one is; help_command and
\* get_my_id never call the gateway.
C18_Stateless ==
    /\ [][\A t \in TaskIds :
            (Stepped(t) /\ tasks'[t].kind \in {"help", "myid", "test"}) =>
                waiting_for_number' = waiting_for_number]_vars
    /\ [](\A t \in TaskIds :
            /\ tasks[t].kind \in {"help", "myid"} =>
                   /\ tasks[t].calls = <<>>
                   /\ Len(tasks[t].replies) = 1
                   /\ tasks[t].replies[1].msg.tmpl =
                          IF tasks[t].kind = "help" THEN "cara_penggunaan" ELSE "info_akun"
            /\ (tasks[t].kind = "test" /\ TARGET_USER_ID = None) =>
                   /\ tasks[t].calls = <<>>
                   /\ Len(tasks[t].replies) = 1
                   /\ tasks[t].replies[1].msg = Msg("test_target_belum_dikonfigurasi", <<>>)
            /\ (tasks[t].kind = "test" /\ TARGET_USER_ID # None) =>
                   /\ Len(tasks[t].calls) = 1
                   /\ tasks[t].calls[1] =
                          [chat_id |-> <<TargetId>>, text |-> <<"test koneksi dari bot">>])

\* A sender without a session ran /test with a recipient configured, the call
\* failed and the sender was answered, and is still without a session
C18_Witness ==
    \E t \in TaskIds :
        /\ TARGET_USER_ID # None
        /\ tasks[t].kind = "test" /\ tasks[t].sent = "failed" /\ tasks[t].pc = "done"
        /\ Len(tasks[t].calls) = 1
        /\ tasks[t].user \notin DOMAIN waiting_for_number
        /\ DOMAIN waiting_for_number # {}

\* The templates of the except block of handle_message
FailureTemplates ==
    {"target_chat_tidak_ditemukan", "bot_diblokir", "tidak_ada_izin", "gagal_mengirim"}

\* C19 as claimed: a message handler makes a failure reply only when its
\* gateway call failed: a number that was delivered to the recipient is never
\* reported to the sender as failed, whatever happens to the confirmation.
C19_FailureOnlyIfFailed ==
    \A t \in TaskIds : (tasks[t].kind = "message" /\ tasks[t].sent # "failed") =>
        \A i \in 1..Len(tasks[t].replies) :
            tasks[t].replies[i].msg.tmpl \notin FailureTemplates

\* C20 as claimed: every gateway call of a message handler carries a
\* non-empty string of digits (the normalized number, in its code span).
C20_NonEmptyNumber ==
    \A t \in TaskIds : tasks[t].kind = "message" =>
        \A i \in 1..Len(tasks[t].calls) :
            LET text == tasks[t].calls[i].text
                number == SubSeq(text, 2, Len(text) - 1)
            IN  /\ text = code_span(number)
                /\ number # <<>>
                /\ \A j \in 1..Len(number) : isdigit(number[j])
====
